---- MODULE Spec2Model ----
(***************************************************************************)
(* Eventrix: the booking service's seat coordination against the event     *)
(* service's seat ledger.                                                  *)
(*                                                                         *)
(* Source: src/services/booking-service/src/routes/bookings.js (the        *)
(* booking routes) and the event-route tests in src/unnamed/part_001 (the  *)
(* only place that shows PATCH /api/events/:id/seats).                     *)
(*                                                                         *)
(* Every HTTP request is a chain of steps separated by the handler's       *)
(* awaits. One action of this module is the handler's code from one await  *)
(* to the next: the local computation plus the single database or HTTP     *)
(* operation it ends with. Requests in flight occupy a slot of Reqs and     *)
(* their steps interleave freely, as they do on the Node.js event loop.    *)
(*                                                                         *)
(* What is kept of the program:                                            *)
(*  - a Booking document is its userId, eventId, numberOfTickets, the two  *)
(*    statuses, the presence of a transactionId and the eventDate snapshot; *)
(*    _id is handed out by new Booking() and createdAt follows it, so the  *)
(*    order of the ids is the order of creation;                           *)
(*  - save() of a document read earlier writes the paths the handler       *)
(*    modified, whatever the stored document has become in between;        *)
(*  - a call to the event service either is answered or fails (net), and   *)
(*    the waitlist query either answers or throws (db);                    *)
(*  - the payment is a free choice between success and failure;            *)
(*  - an e-mail (bookings.js:44, 106, 150) is sent or not; utils/email is   *)
(*    not among the sources, and what a failed dispatch does to the        *)
(*    awaiting handler is EmailResolves.                                   *)
(***************************************************************************)
EXTENDS Integers, Sequences, FiniteSets, TLC

(* ---------------------------- bounds ----------------------------------- *)
MaxReq == 2          \* requests in flight at once
MaxOps == 4          \* requests received over a run
MaxBookings == 3     \* booking documents ever constructed
MaxTickets == 2      \* largest numberOfTickets a request asks for
MaxReturn == 1       \* largest magnitude of a negative numberOfTickets sent
Capacity == 2        \* capacity of every event
MaxDate == 2         \* the clock runs over 1..MaxDate
EventDate == 1       \* the date every event is created with

\* The figures of the worked example: an event of 20 seats with 5 left, and
\* requests for up to 5 tickets.
ScenarioCapacity == 20
ScenarioSeats == 5
ScenarioMaxTickets == 5

Reqs == 1..MaxReq
Ids == 1..MaxBookings
Events == {"e1", "e2"}
\* The event the bookings of Spec are made for; the other one enters with the
\* maintenance calls of SpecAdmin.
Booked == {"e1"}
Dates == 1..MaxDate
TicketInputs == 0..MaxTickets
AnyTickets == (0 - MaxReturn)..MaxTickets
ScenarioTickets == 0..ScenarioMaxTickets

\* req.user as set by verifyToken: two ordinary users and an admin. Bookings are
\* made by u1; the identity matters only to the access check of a cancellation.
Callers == {"u1", "u2", "admin"}
Bookers == {"u1"}
RoleOf(c) == IF c = "admin" THEN "admin" ELSE "user"

VARIABLES
  capacity,        \* Seat Ledger: event -> capacity
  availableSeats,  \* Seat Ledger: event -> availableSeats
  eventStatus,     \* event -> "upcoming" | "cancelled" | "deleted"
  now,             \* new Date()
  bookings,        \* Booking collection: id -> document ("absent" = not persisted)
  nextId,          \* next _id handed out by new Booking(...)
  rq,              \* request slot -> the handler's locals and position
  started,         \* requests received so far
  consumed,        \* history: id -> accepted seat-consuming deltas issued for it
  returned         \* history: id -> accepted seat-returning deltas issued for it

vars == <<capacity, availableSeats, eventStatus, now, bookings, nextId, rq, started, consumed, returned>>

(* ---------------------------- documents -------------------------------- *)
NoDoc == [userId |-> "-", eventId |-> "-", numberOfTickets |-> 0,
          bookingStatus |-> "absent", paymentStatus |-> "absent",
          transactionId |-> "none", eventDate |-> 0]

NoEvent == [availableSeats |-> 0, status |-> "-", date |-> 0]

NoResp == [status |-> 0, error |-> "-", availableSeats |-> -1, requested |-> -1,
           bookingReference |-> 0,
           bookingStatus |-> "-", paymentStatus |-> "-", transactionId |-> "none"]

NoReq == [pc |-> "idle", op |-> "-", caller |-> "-", eventId |-> "-",
          numberOfTickets |-> 0, joinWaitlist |-> FALSE, id |-> 0,
          paymentSuccess |-> "-", mailFailed |-> FALSE,
          event |-> NoEvent, booking |-> NoDoc, found |-> NoDoc,
          wasConfirmed |-> FALSE,
          hint |-> -1, pass |-> "none", passFailed |-> FALSE, seats |-> 0, waitlist |-> <<>>, cur |-> 1,
          issued |-> <<>>, saved |-> <<>>, resp |-> NoResp]

Resp(status, error) == [NoResp EXCEPT !.status = status, !.error = error]

\* generateTransactionId(): an opaque token; only its presence is modelled.
generateTransactionId == "TXN"

(* ---------------------------- e-mail ----------------------------------- *)
\* A failed dispatch rejecting the awaited call.
EmailResolves_OnlyWhenSent(sent) == sent

\* await sendBookingEmail(...) / await sendWaitlistEmail(...): whether the call
\* returns to the handler (sent: the message went out). utils/email is not among
\* the sources; by the specification a failed dispatch is logged and nothing else
\* (Notification Sink, sections 2 and 6).
EmailResolves(sent) == TRUE

(* ---------------------------- Seat Ledger ------------------------------ *)
\* The adjustment with the sign turned round.
SeatsAfter_Adds(avail, k) == avail + k

\* PATCH /api/events/:id/seats {seatsToBook: k}: k > 0 books, k < 0 restores.
SeatsAfter(avail, k) == avail - k

\* The route granting seats it does not have.
NotEnoughSeats_Never(avail, k) == FALSE

\* The route's 400 'Not enough seats available' (part_001:411-422).
NotEnoughSeats(avail, k) == SeatsAfter(avail, k) < 0

\* The event is there for the event service to find (part_001:400-409: 404
\* 'Event not found' otherwise).
Exists(e) == eventStatus[e] # "deleted"

\* The ledger with the capacity check forgotten.
LedgerRejects_NoCapacityCheck(avail, k, cap) == SeatsAfter(avail, k) < 0

\* The route's code is not among the sources. That it turns down a delta taking
\* availableSeats out of [0, capacity] is the Seat Ledger contract of the
\* specification (sections 3 and 6); the lower bound is also what the route's test
\* "returns 400 when not enough seats" shows.
LedgerRejects(avail, k, cap) ==
  \/ NotEnoughSeats(avail, k)
  \/ SeatsAfter(avail, k) > cap

\* How the call ends: it does not get an answer (net = FALSE), the ledger does
\* not find the event, turns the call down, or applies it.
PatchOutcome(e, k, net) ==
  IF ~net THEN "failed"
  ELSE IF ~Exists(e) THEN "notfound"
  ELSE IF LedgerRejects(availableSeats[e], k, capacity[e]) THEN "rejected"
  ELSE "ok"

PatchAccepted(e, k, net) == PatchOutcome(e, k, net) = "ok"

PatchSeats(e, k, net) ==
  IF PatchAccepted(e, k, net)
    THEN [availableSeats EXCEPT ![e] = SeatsAfter(@, k)]
    ELSE availableSeats

\* GET /api/events/:id as the booking service sees it.
GetEvent(e) == [availableSeats |-> availableSeats[e],
                status |-> eventStatus[e], date |-> EventDate]

\* History kept with the request (with found, the document as findById gave it):
\* the seat calls it made and the documents it saved.
Issue(r, k, outcome) == Append(rq[r].issued, <<k, outcome>>)
Save(r, id, st) == Append(rq[r].saved, <<id, st>>)

Bump(f, id) == [f EXCEPT ![id] = @ + 1]

(* ---------------------------- Init ------------------------------------- *)
\* The service starts with no booking and no request.
Start ==
  /\ eventStatus = [e \in Events |-> "upcoming"]
  /\ now = 1
  /\ bookings = [i \in Ids |-> NoDoc]
  /\ nextId = 1
  /\ rq = [r \in Reqs |-> NoReq]
  /\ started = 0
  /\ consumed = [i \in Ids |-> 0]
  /\ returned = [i \in Ids |-> 0]

\* The booked event has some or all of its seats available (seats taken before
\* the run are not given back in it); the other event has all of them.
Init ==
  /\ Start
  /\ capacity = [e \in Events |-> Capacity]
  /\ availableSeats \in {f \in [Events -> 1..Capacity] :
                           \A e \in Events \ Booked : f[e] = Capacity}

\* The worked example: 5 of the 20 seats of the booked event are left.
InitScenario ==
  /\ Start
  /\ capacity = [e \in Events |-> ScenarioCapacity]
  /\ availableSeats = [e \in Events |-> ScenarioSeats]

(* ---------------------------- POST /api/bookings ----------------------- *)
\* The comparison one seat off.
shouldWaitlist_OffByOne(avail, n) == avail + 1 < n

\* bookings.js:77
shouldWaitlist(avail, n) == avail < n

\* The checks with the one on the date left out.
CreateRejection_NoDateCheck(ev, n, join) ==
  IF ev.status = "cancelled" THEN Resp(400, "Event has been cancelled")
  ELSE IF shouldWaitlist(ev.availableSeats, n) /\ ~join
    THEN [Resp(400, "Not enough seats available")
            EXCEPT !.availableSeats = ev.availableSeats, !.requested = n]
  ELSE NoResp

\* bookings.js:69-85: the checks between the event lookup and new Booking().
CreateRejection(ev, n, join) ==
  IF ev.status = "cancelled" THEN Resp(400, "Event has been cancelled")
  ELSE IF ev.date < now THEN Resp(400, "Cannot book tickets for past events")
  ELSE IF shouldWaitlist(ev.availableSeats, n) /\ ~join
    THEN [Resp(400, "Not enough seats available")
            EXCEPT !.availableSeats = ev.availableSeats, !.requested = n]
  ELSE NoResp

\* The transaction id assigned when the document is constructed.
NewBooking_WithTransactionId(r) ==
  [userId |-> rq[r].caller, eventId |-> rq[r].eventId,
   numberOfTickets |-> rq[r].numberOfTickets,
   bookingStatus |-> "pending", paymentStatus |-> "pending",
   transactionId |-> generateTransactionId, eventDate |-> rq[r].event.date]

\* bookings.js:87-99: new Booking({...}) with the event's snapshot.
NewBooking(r) ==
  [userId |-> rq[r].caller, eventId |-> rq[r].eventId,
   numberOfTickets |-> rq[r].numberOfTickets,
   bookingStatus |-> "pending", paymentStatus |-> "pending",
   transactionId |-> "none", eventDate |-> rq[r].event.date]

\* A waitlist entry recorded as paid.
WaitlistEntry_Paid(doc) ==
  [doc EXCEPT !.bookingStatus = "waitlisted", !.paymentStatus = "completed"]

\* bookings.js:102-103: the fields of a waitlist entry.
WaitlistEntry(doc) ==
  [doc EXCEPT !.bookingStatus = "waitlisted", !.paymentStatus = "pending"]

\* A failed payment recorded as a confirmed booking.
PaymentFailed_Confirmed(doc) ==
  [doc EXCEPT !.paymentStatus = "failed", !.bookingStatus = "confirmed"]

\* bookings.js:124-125: the fields of a booking whose payment failed.
PaymentFailed(doc) ==
  [doc EXCEPT !.paymentStatus = "failed", !.bookingStatus = "pending"]

\* The seat call's failure swallowed: the handler goes on to save the booking.
AfterSeatUpdate_AlwaysSave(ok) == "c_save"

\* bookings.js:138-147: where the handler goes after the seat call.
AfterSeatUpdate(ok) == IF ok THEN "c_save" ELSE "done"

\* A response is sent by the step that ends the handler: a slot at "done" only
\* shows that response, and is cleared before anything else happens.
NoneDone == \A r \in Reqs : rq[r].pc # "done"

\* Request r is at position p of its handler.
At(r, p) == rq[r].pc = p /\ NoneDone

\* A request is taken by the lowest free slot (the slots are interchangeable).
Free(r) ==
  /\ At(r, "idle")
  /\ \A r2 \in Reqs : r2 < r => rq[r2].pc # "idle"
  /\ started < MaxOps

\* Documents constructed so far plus those the requests in flight may construct.
Planned == (nextId - 1) + Cardinality({r \in Reqs : rq[r].pc = "c_decide"})

\* bookings.js:52-67: the request arrives, is validated, and the event is fetched
\* (E: the events asked for, N: the ticket counts asked for).
CreateFetchFor(r, E, N) ==
  /\ Free(r)
  /\ Planned < MaxBookings
  /\ started' = started + 1
  /\ \E c \in Bookers, e \in E, n \in N, join \in BOOLEAN, net \in BOOLEAN :
       LET start == [NoReq EXCEPT !.op = "create", !.caller = c, !.eventId = e,
                                  !.numberOfTickets = n, !.joinWaitlist = join]
       IN rq' = [rq EXCEPT ![r] =
            IF n = 0
              THEN [start EXCEPT !.pc = "done",
                      !.resp = Resp(400, "Event ID and number of tickets are required")]
            ELSE IF ~net \/ ~Exists(e)
              THEN [start EXCEPT !.pc = "done", !.resp = Resp(404, "Event not found")]
            ELSE [start EXCEPT !.pc = "c_decide", !.event = GetEvent(e)]]
  /\ UNCHANGED <<capacity, availableSeats, eventStatus, now, bookings, nextId, consumed, returned>>

CreateFetch(r) == CreateFetchFor(r, Booked, TicketInputs)

\* bookings.js:69-85: a request that is turned away before a document exists.
CreateReject(r) ==
  /\ At(r, "c_decide")
  /\ CreateRejection(rq[r].event, rq[r].numberOfTickets, rq[r].joinWaitlist) # NoResp
  /\ rq' = [rq EXCEPT ![r].pc = "done",
              ![r].resp = CreateRejection(rq[r].event, rq[r].numberOfTickets,
                                          rq[r].joinWaitlist)]
  /\ UNCHANGED <<capacity, availableSeats, eventStatus, now, bookings, nextId, started, consumed, returned>>

\* bookings.js:166-169: the handler's catch.
CreateFailed == Resp(500, "Failed to create booking")

\* bookings.js:101-119: the waitlist branch.
CreateWaitlist(r) ==
  /\ At(r, "c_decide")
  /\ CreateRejection(rq[r].event, rq[r].numberOfTickets, rq[r].joinWaitlist) = NoResp
  /\ shouldWaitlist(rq[r].event.availableSeats, rq[r].numberOfTickets)
  /\ \E sent \in BOOLEAN :
     LET doc == WaitlistEntry(NewBooking(r))
     IN /\ bookings' = [bookings EXCEPT ![nextId] = doc]
        /\ rq' = [rq EXCEPT ![r].pc = "done", ![r].id = nextId, ![r].booking = doc,
                    ![r].saved = Save(r, nextId, doc.bookingStatus),
                    ![r].mailFailed = ~sent,
                    ![r].resp = IF EmailResolves(sent)
                                  THEN [Resp(202, "-") EXCEPT
                                          !.bookingReference = nextId,
                                          !.bookingStatus = doc.bookingStatus]
                                  ELSE CreateFailed]
  /\ nextId' = nextId + 1
  /\ UNCHANGED <<capacity, availableSeats, eventStatus, now, started, consumed, returned>>

\* bookings.js:121-132: the simulated payment fails.
CreatePaymentFailed(r) ==
  /\ At(r, "c_decide")
  /\ CreateRejection(rq[r].event, rq[r].numberOfTickets, rq[r].joinWaitlist) = NoResp
  /\ ~shouldWaitlist(rq[r].event.availableSeats, rq[r].numberOfTickets)
  /\ LET doc == PaymentFailed(NewBooking(r))
     IN /\ bookings' = [bookings EXCEPT ![nextId] = doc]
        /\ rq' = [rq EXCEPT ![r].pc = "done", ![r].id = nextId, ![r].booking = doc,
                    ![r].paymentSuccess = "no",
                    ![r].saved = Save(r, nextId, doc.bookingStatus),
                    ![r].resp = [Resp(400, "Payment failed. Please try again.")
                                   EXCEPT !.bookingReference = nextId]]
  /\ nextId' = nextId + 1
  /\ UNCHANGED <<capacity, availableSeats, eventStatus, now, started, consumed, returned>>

\* The seats of a booking asked for with the sign of a restoration.
ConfirmDelta_Negative(n) == -n

\* bookings.js:140 and 41: the seatsToBook sent to take the seats of a booking.
ConfirmDelta(n) == n

\* bookings.js:134-147: the payment succeeds and the seats are requested.
CreatePay(r) ==
  /\ At(r, "c_decide")
  /\ CreateRejection(rq[r].event, rq[r].numberOfTickets, rq[r].joinWaitlist) = NoResp
  /\ ~shouldWaitlist(rq[r].event.availableSeats, rq[r].numberOfTickets)
  /\ \E net \in BOOLEAN :
       LET k == ConfirmDelta(rq[r].numberOfTickets)
           ok == PatchAccepted(rq[r].eventId, k, net)
           doc == [NewBooking(r) EXCEPT !.paymentStatus = "completed",
                                        !.bookingStatus = "confirmed",
                                        !.transactionId = generateTransactionId]
       IN /\ availableSeats' = PatchSeats(rq[r].eventId, k, net)
          /\ consumed' = IF ok THEN Bump(consumed, nextId) ELSE consumed
          /\ rq' = [rq EXCEPT ![r].pc = AfterSeatUpdate(ok), ![r].id = nextId,
                      ![r].booking = doc, ![r].paymentSuccess = "yes",
                      ![r].issued = Issue(r, k, PatchOutcome(rq[r].eventId, k, net)),
                      ![r].resp = IF AfterSeatUpdate(ok) = "done"
                                    THEN Resp(500, "Failed to update event seats")
                                    ELSE NoResp]
  /\ nextId' = nextId + 1
  /\ UNCHANGED <<capacity, eventStatus, now, bookings, started, returned>>

\* bookings.js:149-165: the confirmed booking is persisted, its e-mail sent, and
\* the booking reported.
CreateSave(r) ==
  /\ At(r, "c_save")
  /\ bookings' = [bookings EXCEPT ![rq[r].id] = rq[r].booking]
  /\ \E sent \in BOOLEAN :
       rq' = [rq EXCEPT ![r].pc = "done",
                ![r].saved = Save(r, rq[r].id, rq[r].booking.bookingStatus),
                ![r].mailFailed = ~sent,
                ![r].resp = IF EmailResolves(sent)
                              THEN [Resp(201, "-") EXCEPT
                                      !.bookingReference = rq[r].id,
                                      !.bookingStatus = rq[r].booking.bookingStatus,
                                      !.paymentStatus = rq[r].booking.paymentStatus,
                                      !.transactionId = rq[r].booking.transactionId]
                              ELSE CreateFailed]
  /\ UNCHANGED <<capacity, availableSeats, eventStatus, now, nextId, started, consumed, returned>>

(* ---------------------------- PATCH /api/bookings/:id/cancel ----------- *)
\* The check that lets every caller through.
AccessDenied_Nobody(doc, caller, role) == FALSE

\* bookings.js:303
AccessDenied(doc, caller, role) == doc.userId # caller /\ role # "admin"

\* The check comparing against a status no booking has.
AlreadyCancelled_Misspelt(doc) == doc.bookingStatus = "canceled"

\* bookings.js:307
AlreadyCancelled(doc) == doc.bookingStatus = "cancelled"

\* The checks with the one on the date left out.
CancelRejection_NoDateCheck(doc, caller, role) ==
  IF doc.bookingStatus = "absent" THEN Resp(404, "Booking not found")
  ELSE IF AccessDenied(doc, caller, role) THEN Resp(403, "Access denied")
  ELSE IF AlreadyCancelled(doc) THEN Resp(400, "Booking is already cancelled")
  ELSE NoResp

\* bookings.js:299-313: the checks on the document findById returned.
CancelRejection(doc, caller, role) ==
  IF doc.bookingStatus = "absent" THEN Resp(404, "Booking not found")
  ELSE IF AccessDenied(doc, caller, role) THEN Resp(403, "Access denied")
  ELSE IF AlreadyCancelled(doc) THEN Resp(400, "Booking is already cancelled")
  ELSE IF doc.eventDate < now THEN Resp(400, "Cannot cancel booking for past events")
  ELSE NoResp

\* bookings.js:315
WasConfirmed(doc) == doc.bookingStatus = "confirmed"

\* The cancellation refunding whatever the payment was.
Cancelled_AlwaysRefunded(doc) ==
  [doc EXCEPT !.bookingStatus = "cancelled", !.paymentStatus = "refunded"]

\* bookings.js:316-319: the fields the handler sets before save().
Cancelled(doc) ==
  [doc EXCEPT !.bookingStatus = "cancelled",
              !.paymentStatus = IF @ = "completed" THEN "refunded" ELSE @]

\* The restoration sent with the sign of a booking.
RestoreDelta_Books(doc) == doc.numberOfTickets

\* bookings.js:326: the seatsToBook sent to give the seats back.
RestoreDelta(doc) == -doc.numberOfTickets

\* The pass run whatever became of the restoration.
AfterRestore_AlwaysPromote(ok) == "p_get"

\* bookings.js:334: a promotion pass follows only a restoration that answered.
AfterRestore(ok) == IF ok THEN "p_get" ELSE "done"

\* bookings.js:338-346
CancelResp(id, doc) ==
  [Resp(200, "-") EXCEPT !.bookingReference = id,
                         !.bookingStatus = doc.bookingStatus,
                         !.paymentStatus = doc.paymentStatus]

\* The ids a caller can name: those handed out so far, saved or not (an id never
\* handed out is answered like one handed out and not saved).
Known == 1..(nextId - 1)

\* bookings.js:297: the request arrives and the booking is read.
CancelFind(r) ==
  /\ Free(r)
  /\ started' = started + 1
  /\ \E c \in Callers, id \in Known :
       rq' = [rq EXCEPT ![r] = [NoReq EXCEPT !.pc = "k_save", !.op = "cancel", !.caller = c,
                                  !.id = id, !.booking = bookings[id],
                                  !.found = bookings[id]]]
  /\ UNCHANGED <<capacity, availableSeats, eventStatus, now, bookings, nextId, consumed, returned>>

\* bookings.js:299-313: the request is turned away; nothing is written.
CancelReject(r) ==
  /\ At(r, "k_save")
  /\ CancelRejection(rq[r].booking, rq[r].caller, RoleOf(rq[r].caller)) # NoResp
  /\ rq' = [rq EXCEPT ![r].pc = "done",
              ![r].resp = CancelRejection(rq[r].booking, rq[r].caller, RoleOf(rq[r].caller))]
  /\ UNCHANGED <<capacity, availableSeats, eventStatus, now, bookings, nextId, started, consumed, returned>>

\* bookings.js:315-320: save() writes the paths the handler modified.
CancelSave(r) ==
  /\ At(r, "k_save")
  /\ CancelRejection(rq[r].booking, rq[r].caller, RoleOf(rq[r].caller)) = NoResp
  /\ LET doc == Cancelled(rq[r].booking)
         was == WasConfirmed(rq[r].booking)
     IN /\ bookings' = [bookings EXCEPT ![rq[r].id].bookingStatus = doc.bookingStatus,
                                        ![rq[r].id].paymentStatus =
                                           IF doc.paymentStatus # rq[r].booking.paymentStatus
                                             THEN doc.paymentStatus ELSE @]
        /\ rq' = [rq EXCEPT ![r].pc = IF was THEN "k_restore" ELSE "done",
                    ![r].booking = doc, ![r].wasConfirmed = was,
                    ![r].eventId = doc.eventId,
                    ![r].saved = Save(r, rq[r].id, doc.bookingStatus),
                    ![r].resp = IF was THEN NoResp ELSE CancelResp(rq[r].id, doc)]
  /\ UNCHANGED <<capacity, availableSeats, eventStatus, now, nextId, started, consumed, returned>>

\* The response sent without waiting for the pass.
PassResp_NotAwaited(next, id, doc) == CancelResp(id, doc)

\* bookings.js:334-346: `await promoteWaitlistIfPossible(...)` comes before
\* res.json: while the pass is on, no response is there.
PassResp(next, id, doc) == IF next = "done" THEN CancelResp(id, doc) ELSE NoResp

\* bookings.js:322-346: the seats of a confirmed booking are given back.
CancelRestore(r) ==
  /\ At(r, "k_restore")
  /\ \E net \in BOOLEAN :
       LET k == RestoreDelta(rq[r].booking)
           ok == PatchAccepted(rq[r].eventId, k, net)
       IN /\ availableSeats' = PatchSeats(rq[r].eventId, k, net)
          /\ returned' = IF ok THEN Bump(returned, rq[r].id) ELSE returned
          /\ rq' = [rq EXCEPT ![r].pc = AfterRestore(ok),
                      ![r].issued = Issue(r, k, PatchOutcome(rq[r].eventId, k, net)),
                      ![r].hint = IF ok THEN availableSeats'[rq[r].eventId] ELSE -1,
                      ![r].resp = PassResp(AfterRestore(ok), rq[r].id, rq[r].booking)]
  /\ UNCHANGED <<capacity, eventStatus, now, bookings, nextId, started, consumed>>

(* ---------------------------- promoteWaitlistIfPossible ---------------- *)
\* bookings.js:17: the seat count the pass starts from (hint < 0: no hint given).
StartingSeats(hint, fetched) == IF hint >= 0 THEN hint ELSE fetched

\* The sort turned round: the youngest first.
Earliest_Youngest(S) == CHOOSE x \in S : \A y \in S : x >= y

\* bookings.js:26: .sort({ createdAt: 1 }); documents are created in _id order.
Earliest(S) == CHOOSE x \in S : \A y \in S : x <= y

RECURSIVE InOrder(_)
InOrder(S) == IF S = {} THEN <<>>
              ELSE <<Earliest(S)>> \o InOrder(S \ {Earliest(S)})

\* bookings.js:23-26
Waitlisted(e) ==
  InOrder({i \in Ids : bookings[i].eventId = e /\ bookings[i].bookingStatus = "waitlisted"})

\* The loop stopping only when no seat is left.
DoesNotFit_OnlyWhenEmpty(seats, n) == seats <= 0

\* bookings.js:29
DoesNotFit(seats, n) == seats < n

\* The failure of the pass passed on to the canceller.
AfterPassFailure_Surfaced(id, doc) == Resp(500, "Failed to cancel booking")

\* bookings.js:46-48 and 334-346: the catch of the pass logs and returns, and
\* the cancel route goes on to its res.json.
AfterPassFailure(id, doc) == CancelResp(id, doc)

\* bookings.js:15-21: the event is fetched; no seats, no pass.
PromoteGet(r) ==
  /\ At(r, "p_get")
  /\ \E net \in BOOLEAN :
       LET seats == StartingSeats(rq[r].hint, GetEvent(rq[r].eventId).availableSeats)
       IN rq' = [rq EXCEPT ![r] =
            IF ~net \/ ~Exists(rq[r].eventId)
              THEN [@ EXCEPT !.pc = "done", !.pass = "run", !.passFailed = TRUE,
                             !.resp = AfterPassFailure(rq[r].id, rq[r].booking)]
            ELSE IF seats <= 0
              THEN [@ EXCEPT !.pc = "done", !.pass = "run",
                             !.resp = CancelResp(rq[r].id, rq[r].booking)]
              ELSE [@ EXCEPT !.pc = "p_find", !.pass = "run", !.seats = seats]]
  /\ UNCHANGED <<capacity, availableSeats, eventStatus, now, bookings, nextId, started, consumed, returned>>

\* bookings.js:23-26: the waitlist is loaded, oldest first (db: the query answers).
PromoteFind(r) ==
  /\ At(r, "p_find")
  /\ \E db \in BOOLEAN :
       rq' = [rq EXCEPT ![r] =
            IF db THEN [@ EXCEPT !.pc = "p_loop", !.waitlist = Waitlisted(rq[r].eventId)]
                  ELSE [@ EXCEPT !.pc = "done", !.passFailed = TRUE,
                                 !.resp = AfterPassFailure(rq[r].id, rq[r].booking)]]
  /\ UNCHANGED <<capacity, availableSeats, eventStatus, now, bookings, nextId, started, consumed, returned>>

\* The candidate the loop is at, 0 past the end of the list.
Candidate(r) == IF rq[r].cur <= Len(rq[r].waitlist) THEN rq[r].waitlist[rq[r].cur] ELSE 0

\* bookings.js:28-31: the list is exhausted or the candidate does not fit.
PromoteStop(r) ==
  /\ At(r, "p_loop")
  /\ \/ Candidate(r) = 0
     \/ /\ Candidate(r) # 0
        /\ DoesNotFit(rq[r].seats, bookings[Candidate(r)].numberOfTickets)
  /\ rq' = [rq EXCEPT ![r].pc = "done", ![r].resp = CancelResp(rq[r].id, rq[r].booking)]
  /\ UNCHANGED <<capacity, availableSeats, eventStatus, now, bookings, nextId, started, consumed, returned>>

\* bookings.js:33-36: the candidate is saved as confirmed.
PromoteSave(r) ==
  /\ At(r, "p_loop")
  /\ Candidate(r) # 0
  /\ LET w == Candidate(r)
     IN /\ ~DoesNotFit(rq[r].seats, bookings[w].numberOfTickets)
        /\ bookings' = [bookings EXCEPT ![w].bookingStatus = "confirmed",
                                        ![w].paymentStatus = "completed",
                                        ![w].transactionId = generateTransactionId]
        /\ rq' = [rq EXCEPT ![r].pc = "p_patch", ![r].saved = Save(r, w, "confirmed")]
  /\ UNCHANGED <<capacity, availableSeats, eventStatus, now, nextId, started, consumed, returned>>

\* The loop going on after a call that threw.
AfterPromotionCall_GoesOn(goOn) == "p_loop"

\* bookings.js:28-48: the loop goes on after its awaits; a call that throws
\* leaves it for the catch, after which the function returns.
AfterPromotionCall(goOn) == IF goOn THEN "p_loop" ELSE "done"

\* bookings.js:38-45: its seats are requested and, when they are granted, its
\* e-mail is sent; a call that throws ends the pass.
PromotePatch(r) ==
  /\ At(r, "p_patch")
  /\ \E net \in BOOLEAN, sent \in BOOLEAN :
       LET w == Candidate(r)
           n == bookings[w].numberOfTickets
           k == ConfirmDelta(n)
           ok == PatchAccepted(rq[r].eventId, k, net)
           goOn == ok /\ EmailResolves(sent)
       IN /\ ok \/ sent    \* no e-mail follows a seat call that threw
          /\ availableSeats' = PatchSeats(rq[r].eventId, k, net)
          /\ consumed' = IF ok THEN Bump(consumed, w) ELSE consumed
          /\ rq' = [rq EXCEPT ![r] =
               [@ EXCEPT !.pc = AfterPromotionCall(goOn),
                         !.seats = @ - n,
                         !.cur = IF ok THEN @ + 1 ELSE @,
                         !.mailFailed = @ \/ ~sent,
                         !.issued = Issue(r, k, PatchOutcome(rq[r].eventId, k, net)),
                         !.resp = PassResp(AfterPromotionCall(goOn), rq[r].id,
                                           rq[r].booking)]]
  /\ UNCHANGED <<capacity, eventStatus, now, bookings, nextId, started, returned>>

(* ---------------------------- maintenance calls ------------------------ *)
\* The filter with the event left out.
CancelAllFilter_EveryEvent(doc, e) ==
  doc.bookingStatus \notin {"absent", "cancelled"}

\* bookings.js:397: { eventId, bookingStatus: { $ne: 'cancelled' } }
CancelAllFilter(doc, e) ==
  doc.eventId = e /\ doc.bookingStatus # "cancelled"

\* bookings.js:391-400: the updateMany of cancel-all.
AllCancelled(e) ==
  [i \in Ids |->
     IF CancelAllFilter(bookings[i], e)
       THEN [bookings[i] EXCEPT !.bookingStatus = "cancelled",
                                !.paymentStatus = "refunded"]
       ELSE bookings[i]]

\* bookings.js:385-414: PATCH /api/bookings/event/:eventId/cancel-all
CancelAll(e) ==
  /\ NoneDone
  /\ \E i \in Ids : bookings[i].eventId = e
  /\ bookings' = AllCancelled(e)
  /\ UNCHANGED <<capacity, availableSeats, eventStatus, now, nextId, rq, started, consumed, returned>>

\* The update that also puts the booking back to pending.
SyncSet_ResetsStatus(doc, d) == [doc EXCEPT !.eventDate = d, !.bookingStatus = "pending"]

\* bookings.js:426-432: the $set of the event snapshot, of which the documents
\* here keep the date.
SyncSet(doc, d) == [doc EXCEPT !.eventDate = d]

\* bookings.js:417-444: PATCH /api/bookings/event/:eventId/sync
Sync(e, d) ==
  /\ NoneDone
  /\ bookings' = [i \in Ids |->
       IF bookings[i].eventId = e THEN SyncSet(bookings[i], d)
                                  ELSE bookings[i]]
  /\ bookings' # bookings
  /\ UNCHANGED <<capacity, availableSeats, eventStatus, now, nextId, rq, started, consumed, returned>>

(* ---------------------------- environment ------------------------------ *)
\* The event is cancelled upstream (read at bookings.js:69).
EventCancelled(e) ==
  /\ NoneDone
  /\ eventStatus[e] = "upcoming"
  /\ eventStatus' = [eventStatus EXCEPT ![e] = "cancelled"]
  /\ UNCHANGED <<capacity, availableSeats, now, bookings, nextId, rq, started, consumed, returned>>

\* The event is deleted upstream (part_001:323-358): the event goes, and the
\* cancel-all call that follows may fail without stopping the deletion.
EventDeleted(e) ==
  /\ NoneDone
  /\ Exists(e)
  /\ eventStatus' = [eventStatus EXCEPT ![e] = "deleted"]
  /\ \E ok \in BOOLEAN : bookings' = IF ok THEN AllCancelled(e) ELSE bookings
  /\ UNCHANGED <<capacity, availableSeats, now, nextId, rq, started, consumed, returned>>

\* Time passes (new Date() at bookings.js:73 and 311).
Tick ==
  /\ NoneDone
  /\ now < MaxDate
  /\ now' = now + 1
  /\ UNCHANGED <<capacity, availableSeats, eventStatus, bookings, nextId, rq, started, consumed, returned>>

\* The response has been sent; the slot is free for the next request.
Respond(r) ==
  /\ rq[r].pc = "done"
  /\ rq' = [rq EXCEPT ![r] = NoReq]
  /\ UNCHANGED <<capacity, availableSeats, eventStatus, now, bookings, nextId, started, consumed, returned>>

Next ==
  \/ \E r \in Reqs :
       \/ CreateFetch(r) \/ CreateReject(r) \/ CreateWaitlist(r)
       \/ CreatePaymentFailed(r) \/ CreatePay(r) \/ CreateSave(r)
       \/ CancelFind(r) \/ CancelReject(r) \/ CancelSave(r) \/ CancelRestore(r)
       \/ PromoteGet(r) \/ PromoteFind(r) \/ PromoteStop(r) \/ PromoteSave(r)
       \/ PromotePatch(r) \/ Respond(r)
  \/ \E e \in Events : CancelAll(e)

Spec == Init /\ [][Next]_vars

\* The same requests while the event may be cancelled upstream and its date pass.
NextEnv ==
  \/ Next
  \/ \E e \in Booked : EventCancelled(e)
  \/ Tick

SpecEnv == Init /\ [][NextEnv]_vars

\* The same requests while the event may be deleted upstream.
NextLedger ==
  \/ Next
  \/ \E e \in Booked : EventDeleted(e)

SpecLedger == Init /\ [][NextLedger]_vars

\* Requests whose body carries any integer as numberOfTickets, the negative ones
\* included, one request at a time.
NextInputs ==
  \E r \in {1} :
    \/ CreateFetchFor(r, Booked, AnyTickets) \/ CreateReject(r) \/ CreateWaitlist(r)
    \/ CreatePaymentFailed(r) \/ CreatePay(r) \/ CreateSave(r)
    \/ CancelFind(r) \/ CancelReject(r) \/ CancelSave(r) \/ CancelRestore(r)
    \/ PromoteGet(r) \/ PromoteFind(r) \/ PromoteStop(r) \/ PromoteSave(r)
    \/ PromotePatch(r) \/ Respond(r)

SpecInputs == Init /\ [][NextInputs]_vars

\* The worked example: requests for up to 5 tickets, one request at a time (only
\* the first slot is used), against the event at 5 of its 20 seats.
NextScenario ==
  \E r \in {1} :
    \/ CreateFetchFor(r, Booked, ScenarioTickets) \/ CreateReject(r) \/ CreateWaitlist(r)
    \/ CreatePaymentFailed(r) \/ CreatePay(r) \/ CreateSave(r)
    \/ CancelFind(r) \/ CancelReject(r) \/ CancelSave(r) \/ CancelRestore(r)
    \/ PromoteGet(r) \/ PromoteFind(r) \/ PromoteStop(r) \/ PromoteSave(r)
    \/ PromotePatch(r) \/ Respond(r)

SpecScenario == InitScenario /\ [][NextScenario]_vars

\* The step of request r in which no call to the ledger, the store or the mailer
\* fails: every seat call so far was applied, the event lookup, the waitlist
\* query and the e-mails went through.
NoFailure(r) ==
  /\ \A i \in 1..Len(rq'[r].issued) : rq'[r].issued[i][2] = "ok"
  /\ ~rq'[r].passFailed /\ ~rq'[r].mailFailed
  /\ ~(rq'[r].op = "create" /\ rq'[r].resp.status \in {404, 500})

\* The worked example's requests, one at a time, in runs where no call fails.
NextClean ==
  \E r \in {1} :
    \/ CreateFetchFor(r, Booked, ScenarioTickets) /\ NoFailure(r)
    \/ CreateReject(r) /\ NoFailure(r)
    \/ CreateWaitlist(r) /\ NoFailure(r)
    \/ CreatePaymentFailed(r) /\ NoFailure(r)
    \/ CreatePay(r) /\ NoFailure(r)
    \/ CreateSave(r) /\ NoFailure(r)
    \/ CancelFind(r) /\ NoFailure(r)
    \/ CancelReject(r) /\ NoFailure(r)
    \/ CancelSave(r) /\ NoFailure(r)
    \/ CancelRestore(r) /\ NoFailure(r)
    \/ PromoteGet(r) /\ NoFailure(r)
    \/ PromoteFind(r) /\ NoFailure(r)
    \/ PromoteStop(r) /\ NoFailure(r)
    \/ PromoteSave(r) /\ NoFailure(r)
    \/ PromotePatch(r) /\ NoFailure(r)
    \/ Respond(r)

SpecClean == InitScenario /\ [][NextClean]_vars

\* The step of request r in which the event service answers every call: a seat
\* call is applied or turned down for its bounds, and the event is found.
NoOutage(r) ==
  /\ \A i \in 1..Len(rq'[r].issued) : rq'[r].issued[i][2] \in {"ok", "rejected"}
  /\ ~rq'[r].passFailed
  /\ ~(rq'[r].op = "create" /\ rq'[r].resp.status = 404)

\* Requests running side by side while the event service answers every call.
NextRace ==
  \E r \in Reqs :
    \/ CreateFetch(r) /\ NoOutage(r)
    \/ CreateReject(r) /\ NoOutage(r)
    \/ CreateWaitlist(r) /\ NoOutage(r)
    \/ CreatePaymentFailed(r) /\ NoOutage(r)
    \/ CreatePay(r) /\ NoOutage(r)
    \/ CreateSave(r) /\ NoOutage(r)
    \/ CancelFind(r) /\ NoOutage(r)
    \/ CancelReject(r) /\ NoOutage(r)
    \/ CancelSave(r) /\ NoOutage(r)
    \/ CancelRestore(r) /\ NoOutage(r)
    \/ PromoteGet(r) /\ NoOutage(r)
    \/ PromoteFind(r) /\ NoOutage(r)
    \/ PromoteStop(r) /\ NoOutage(r)
    \/ PromoteSave(r) /\ NoOutage(r)
    \/ PromotePatch(r) /\ NoOutage(r)
    \/ Respond(r)

SpecRace == Init /\ [][NextRace]_vars

\* A request in flight takes its next step (arrivals are left out: nothing
\* obliges a new request to come).
Progress ==
  \E r \in Reqs :
    \/ (\/ CreateReject(r) \/ CreateWaitlist(r) \/ CreatePaymentFailed(r)
        \/ CreatePay(r) \/ CreateSave(r)
        \/ CancelReject(r) \/ CancelSave(r) \/ CancelRestore(r)
        \/ PromoteGet(r) \/ PromoteFind(r) \/ PromoteStop(r) \/ PromoteSave(r)
        \/ PromotePatch(r)) /\ NoOutage(r)
    \/ Respond(r)

\* The same runs in which every handler that has started runs to its end: the
\* event loop resumes every continuation whose awaited call has been answered.
SpecLive == SpecRace /\ WF_vars(Progress)

\* The maintenance calls the event service makes when an event is cancelled,
\* deleted or edited, among requests for both events, one request at a time.
NextAdmin ==
  \/ \E r \in {1} :
       \/ CreateFetchFor(r, Events, TicketInputs) \/ CreateReject(r) \/ CreateWaitlist(r)
       \/ CreatePaymentFailed(r) \/ CreatePay(r) \/ CreateSave(r)
       \/ CancelFind(r) \/ CancelReject(r) \/ CancelSave(r) \/ CancelRestore(r)
       \/ PromoteGet(r) \/ PromoteFind(r) \/ PromoteStop(r) \/ PromoteSave(r)
       \/ PromotePatch(r) \/ Respond(r)
  \/ \E e \in Events : CancelAll(e)
  \/ \E e \in Events, d \in Dates : Sync(e, d)

SpecAdmin == Init /\ [][NextAdmin]_vars

(* ======================================================================= *)
(* Claims                                                                  *)
(* ======================================================================= *)
Range(q) == {q[i] : i \in 1..Len(q)}

\* A request whose response is being sent.
IsDone(r, op) == rq[r].pc = "done" /\ rq[r].op = op

\* C1: for every event, in every reachable state, 0 <= availableSeats <= capacity.
C1_SeatsWithinCapacity ==
  \A e \in Events : 0 <= availableSeats[e] /\ availableSeats[e] <= capacity[e]

\* C1 witness: with every seat of the event available, the ledger has turned
\* down a restoration, which would have taken availableSeats past the capacity.
C1_Witness ==
  \E r \in Reqs :
    /\ rq[r].op = "cancel" /\ rq[r].eventId \in Events
    /\ availableSeats[rq[r].eventId] = capacity[rq[r].eventId]
    /\ \E x \in Range(rq[r].issued) : x[1] < 0 /\ x[2] = "rejected"

\* A promotion pass has saved booking i as confirmed and not yet asked for its seats.
SeatsPending(i) == \E r \in Reqs : rq[r].pc = "p_patch" /\ Candidate(r) = i

\* C2: every booking persisted as confirmed has had a seat-consuming delta of
\* numberOfTickets accepted by the ledger exactly once (a booking a promotion
\* pass has just saved is given until the pass has made its seat call).
C2_ConfirmedConsumedOnce ==
  \A i \in Ids :
    bookings[i].bookingStatus = "confirmed" /\ ~SeatsPending(i) => consumed[i] = 1

\* C3: the seats of a cancelled booking are returned to the ledger at most once,
\* whatever the interleaving of the cancel requests.
C3_ReturnedAtMostOnce == \A i \in Ids : returned[i] <= 1

\* C4: when create-booking's payment succeeds and the seat call is rejected or
\* fails, no confirmed booking is persisted for the request and the caller gets
\* the 500 "Failed to update event seats", unlike any other response.
C4_NotConfirmedOnSeatFailure ==
  \A r \in Reqs :
    IsDone(r, "create") /\ (\E x \in Range(rq[r].issued) : x[2] # "ok")
      => /\ rq[r].resp.status = 500
         /\ rq[r].resp.error = "Failed to update event seats"
         /\ rq[r].saved = <<>>
         /\ bookings[rq[r].id].bookingStatus = "absent"

\* C4 witness: the ledger rejected the seats of a create whose payment succeeded.
C4_Witness ==
  \E r \in Reqs :
    /\ IsDone(r, "create")
    /\ rq[r].issued = <<<<rq[r].numberOfTickets, "rejected">>>>
    /\ rq[r].resp.status = 500

\* C5: the tickets of an event's confirmed bookings never exceed its capacity.
RECURSIVE Tickets(_)
Tickets(S) == IF S = {} THEN 0
              ELSE LET i == CHOOSE x \in S : TRUE
                   IN bookings[i].numberOfTickets + Tickets(S \ {i})

\* The event's confirmed bookings, leaving out one a promotion pass has just saved
\* and is about to ask the seats for.
ConfirmedOf(e) ==
  {i \in Ids : /\ bookings[i].eventId = e /\ bookings[i].bookingStatus = "confirmed"
               /\ ~SeatsPending(i)}

Shortage(r) ==
  /\ rq[r].event # NoEvent
  /\ rq[r].event.availableSeats < rq[r].numberOfTickets

\* The event the request read is neither cancelled nor past.
Bookable(r) == rq[r].event.status # "cancelled" /\ ~(rq[r].event.date < now)

\* The response of bookings.js:80-84 with the value read and the count asked.
IsConflict(r) ==
  /\ rq[r].resp.status = 400
  /\ rq[r].resp.error = "Not enough seats available"
  /\ rq[r].resp.availableSeats = rq[r].event.availableSeats
  /\ rq[r].resp.requested = rq[r].numberOfTickets

\* C6 as stated: create-booking for more tickets than the availableSeats it
\* read, without joinWaitlist, always fails with "Not enough seats available"
\* carrying the value read and the requested count, persists no booking and
\* issues no seat delta.
C6_ShortageAlwaysConflict ==
  \A r \in Reqs :
    IsDone(r, "create") /\ Shortage(r) /\ ~rq[r].joinWaitlist
      => IsConflict(r) /\ rq[r].saved = <<>> /\ rq[r].issued = <<>>

\* C6 amended: such a request always fails, persists no booking and issues no
\* seat delta; the failure is that Conflict response when the event is neither
\* cancelled nor past (those two are turned away first, with their own error).
C6_ShortageWithoutWaitlist ==
  \A r \in Reqs :
    IsDone(r, "create") /\ Shortage(r) /\ ~rq[r].joinWaitlist
      => /\ rq[r].resp.status = 400
         /\ rq[r].saved = <<>> /\ rq[r].issued = <<>> /\ rq[r].id = 0
         /\ (Bookable(r) => IsConflict(r))
         /\ (~Bookable(r) => rq[r].resp.availableSeats = -1)

\* C6 witness: two tickets were asked of an event with one seat left.
C6_Witness ==
  \E r \in Reqs :
    /\ IsDone(r, "create") /\ ~rq[r].joinWaitlist
    /\ rq[r].numberOfTickets = 2 /\ rq[r].event.availableSeats = 1
    /\ rq[r].resp.error = "Not enough seats available"
    /\ rq[r].resp.availableSeats = 1 /\ rq[r].resp.requested = 2

\* The request has persisted its booking as a waitlist entry and done no more.
IsWaitlisted(r) ==
  /\ rq[r].resp.status = 202
  /\ rq[r].saved = <<<<rq[r].id, "waitlisted">>>>
  /\ rq[r].issued = <<>>
  /\ bookings[rq[r].id].bookingStatus = "waitlisted"
  /\ bookings[rq[r].id].paymentStatus = "pending"
  /\ bookings[rq[r].id].transactionId = "none"
  /\ bookings[rq[r].id].numberOfTickets = rq[r].numberOfTickets
  /\ consumed[rq[r].id] = 0

\* C7 as stated: create-booking for more tickets than the availableSeats it
\* read, with joinWaitlist, always persists a booking waitlisted / pending with
\* no transaction id and issues no seat delta.
C7_ShortageAlwaysWaitlisted ==
  \A r \in Reqs :
    IsDone(r, "create") /\ Shortage(r) /\ rq[r].joinWaitlist => IsWaitlisted(r)

\* C7 amended: it does so when the event is neither cancelled nor past; for a
\* cancelled or past event the request is turned away and nothing is persisted.
\* In both cases no seat delta is issued.
C7_ShortageWithWaitlist ==
  \A r \in Reqs :
    IsDone(r, "create") /\ Shortage(r) /\ rq[r].joinWaitlist
      => /\ rq[r].issued = <<>>
         /\ (Bookable(r) => IsWaitlisted(r))
         /\ (~Bookable(r) => rq[r].resp.status = 400 /\ rq[r].saved = <<>>)

\* C7 witness: a request joined the waitlist of an event with no seat left.
C7_Witness ==
  \E r \in Reqs :
    /\ IsDone(r, "create") /\ rq[r].joinWaitlist /\ rq[r].resp.status = 202
    /\ rq[r].event.availableSeats = 0 /\ availableSeats[rq[r].eventId] = 0

\* The bookings the request's promotion pass saved as confirmed, in order.
IsPromotion(x) == x[2] = "confirmed"
Promoted(r) ==
  LET q == SelectSeq(rq[r].saved, IsPromotion) IN [i \in 1..Len(q) |-> q[i][1]]

Restorations(r) == {i \in 1..Len(rq[r].issued) : rq[r].issued[i][1] < 0}

Ascending(q) == \A i, j \in 1..Len(q) : i < j => q[i] < q[j]

AfterRestoration(r) ==
  rq[r].op = "cancel" /\ rq[r].wasConfirmed /\ rq[r].pc \notin {"k_save", "k_restore"}

\* C8: cancelling a confirmed booking of N tickets issues exactly one seat call
\* returning N seats; when it succeeds a promotion pass is run, which takes the
\* waitlisted bookings in ascending creation order.
C8_CancelRestoresAndPromotes ==
  \A r \in Reqs :
    /\ AfterRestoration(r)
         => /\ Restorations(r) = {1}
            /\ rq[r].issued[1][1] = 0 - rq[r].booking.numberOfTickets
    /\ AfterRestoration(r) /\ rq[r].pc = "done" /\ rq[r].issued[1][2] = "ok"
         => rq[r].pass = "run"
    /\ rq[r].op = "cancel"
         => Ascending(rq[r].waitlist) /\ Ascending(Promoted(r))

\* C8 witness: the cancellation of a confirmed booking has given its two seats
\* back and its pass has promoted two waitlisted bookings, the older first.
C8_Witness ==
  \E r \in Reqs :
    /\ IsDone(r, "cancel") /\ rq[r].wasConfirmed
    /\ rq[r].issued[1] = <<-2, "ok">>
    /\ Len(rq[r].waitlist) = 2 /\ Promoted(r) = rq[r].waitlist

\* The pass of request r ended by itself, not on a failed call.
PassStopped(r) ==
  /\ IsDone(r, "cancel") /\ rq[r].pass = "run" /\ rq[r].waitlist # <<>>
  /\ rq[r].issued[Len(rq[r].issued)][2] = "ok"

\* C9: head-of-line blocking. A pass promotes the waitlist it loaded strictly
\* from the front: no booking is promoted unless it fits in the seats left, and
\* the pass ends at the first that does not fit, promoting nothing after it.
C9_HeadOfLineBlocking ==
  \A r \in Reqs :
    rq[r].op = "cancel"
      => /\ Promoted(r) = SubSeq(rq[r].waitlist, 1, Len(Promoted(r)))
         /\ rq[r].seats >= 0
         /\ (PassStopped(r) /\ Candidate(r) # 0
               => /\ bookings[Candidate(r)].numberOfTickets > rq[r].seats
                  /\ Len(Promoted(r)) = rq[r].cur - 1)

\* C9 witness: the pass ended at an older booking that did not fit while a
\* younger waitlisted booking behind it would have fitted and stays waitlisted.
C9_Witness ==
  \E r \in Reqs :
    /\ PassStopped(r) /\ rq[r].cur = 1 /\ Len(rq[r].waitlist) = 2
    /\ Promoted(r) = <<>>
    /\ bookings[rq[r].waitlist[1]].numberOfTickets > rq[r].seats
    /\ bookings[rq[r].waitlist[2]].numberOfTickets <= rq[r].seats
    /\ bookings[rq[r].waitlist[2]].bookingStatus = "waitlisted"

\* The cancel request found the booking already cancelled.
FoundCancelled(r) == IsDone(r, "cancel") /\ rq[r].found.bookingStatus = "cancelled"

\* The request wrote nothing, made no seat call and ran no promotion pass.
NothingDone(r) == rq[r].saved = <<>> /\ rq[r].issued = <<>> /\ rq[r].pass = "none"

\* C10 as stated: cancelling an already cancelled booking always fails with
\* "Booking is already cancelled" and changes nothing.
C10_AlreadyCancelledAlwaysConflict ==
  \A r \in Reqs :
    FoundCancelled(r)
      => /\ rq[r].resp.status = 400
         /\ rq[r].resp.error = "Booking is already cancelled"
         /\ NothingDone(r)

\* C10 amended: cancelling an already cancelled booking fails and changes
\* nothing; the failure is "Booking is already cancelled" when the caller is the
\* owner or an admin, and "Access denied" for any other caller.
C10_AlreadyCancelledRejected ==
  \A r \in Reqs :
    FoundCancelled(r)
      => /\ NothingDone(r)
         /\ IF rq[r].caller = rq[r].found.userId \/ RoleOf(rq[r].caller) = "admin"
              THEN rq[r].resp.status = 400
                   /\ rq[r].resp.error = "Booking is already cancelled"
              ELSE rq[r].resp.status = 403 /\ rq[r].resp.error = "Access denied"

\* C10 witness: the owner asked to cancel a booking that was already cancelled.
C10_Witness ==
  \E r \in Reqs :
    /\ FoundCancelled(r)
    /\ rq[r].caller = rq[r].found.userId
    /\ rq[r].resp.error = "Booking is already cancelled"

\* C11: cancelled is terminal. No step changes the bookingStatus of a booking
\* persisted as cancelled; in particular a promotion pass that loaded it as
\* waitlisted does not set it to confirmed afterwards.
C11_CancelledIsTerminal ==
  [][\A i \in Ids : bookings[i].bookingStatus = "cancelled"
                      => bookings'[i].bookingStatus = "cancelled"]_vars

\* C12: the cancel operation moves a booking to cancelled only from confirmed
\* or waitlisted: no cancel request that found a booking pending (payment
\* failed) has saved it.
C12_CancelOnlyConfirmedOrWaitlisted ==
  \A r \in Reqs :
    rq[r].op = "cancel" /\ rq[r].saved # <<>>
      => rq[r].found.bookingStatus \in {"confirmed", "waitlisted"}

\* X, the first booking, is confirmed for the 5 seats that were left.
XHolds ==
  /\ bookings[1].numberOfTickets = ScenarioSeats
  /\ bookings[1].bookingStatus = "confirmed" /\ consumed[1] = 1

\* X has been cancelled by request r while Y (y tickets) and Z (z tickets) were
\* on the waitlist, and every call of the request was answered.
XCancelled(r, y, z) ==
  /\ IsDone(r, "cancel") /\ rq[r].id = 1
  /\ rq[r].found.bookingStatus = "confirmed"
  /\ rq[r].found.numberOfTickets = ScenarioSeats
  /\ bookings[2].numberOfTickets = y /\ bookings[3].numberOfTickets = z
  /\ Len(rq[r].waitlist) = 2
  /\ \A x \in Range(rq[r].issued) : x[2] = "ok"

\* The pass of request r has confirmed Y then Z and the ledger is left with the
\* seats they did not take (none of the 5).
BothPromoted(r, y, z) ==
  /\ rq[r].hint = ScenarioSeats
  /\ rq[r].issued = <<<<0 - ScenarioSeats, "ok">>, <<y, "ok">>, <<z, "ok">>>>
  /\ rq[r].waitlist = <<2, 3>> /\ Promoted(r) = <<2, 3>>
  /\ bookings[2].bookingStatus = "confirmed" /\ bookings[3].bookingStatus = "confirmed"
  /\ availableSeats["e1"] = ScenarioSeats - y - z

\* C13: with 5 of 20 seats left, X for 5 tickets is confirmed and leaves 0 seats;
\* Y and Z, asked with joinWaitlist while X holds the seats, are waitlisted;
\* cancelling X gives the 5 seats back and the pass confirms Y then Z, for Y = 3,
\* Z = 2 as for Y = 4, Z = 1, leaving 0 seats.
C13_Scenario ==
  \A r \in Reqs :
    /\ IsDone(r, "create") /\ rq[r].id = 1 /\ rq[r].issued = <<<<ScenarioSeats, "ok">>>>
         => /\ rq[r].resp.status = 201 /\ bookings[1].bookingStatus = "confirmed"
            /\ availableSeats["e1"] = 0
    /\ IsDone(r, "create") /\ XHolds /\ rq[r].id # 1 /\ rq[r].joinWaitlist
        /\ rq[r].numberOfTickets > 0 /\ rq[r].event # NoEvent
         => IsWaitlisted(r) /\ availableSeats["e1"] = 0
    /\ XCancelled(r, 3, 2) => BothPromoted(r, 3, 2)
    /\ XCancelled(r, 4, 1) => BothPromoted(r, 4, 1)

\* C13 witness: X was cancelled with Y = 3 and Z = 2 waiting, both are confirmed.
C13_Witness ==
  \E r \in Reqs : XCancelled(r, 3, 2) /\ Promoted(r) = <<2, 3>>
                    /\ availableSeats["e1"] = 0

\* Request r cancelled a confirmed booking and its seat-restoring call failed or
\* was turned down.
RestoreFailed(r) ==
  /\ IsDone(r, "cancel") /\ rq[r].wasConfirmed
  /\ rq[r].issued # <<>> /\ rq[r].issued[1][2] # "ok"

\* C14: when the seat-restoring call of a cancellation fails, the cancellation
\* stands (the booking was saved cancelled, payment refunded, and the caller gets
\* the success response), the call is not made again and no promotion pass runs.
C14_CancellationStands ==
  \A r \in Reqs :
    RestoreFailed(r)
      => /\ rq[r].saved = <<<<rq[r].id, "cancelled">>>>
         /\ rq[r].booking.bookingStatus = "cancelled"
         /\ rq[r].booking.paymentStatus = "refunded"
         /\ rq[r].resp.status = 200
         /\ rq[r].resp.bookingStatus = "cancelled"
         /\ rq[r].resp.paymentStatus = "refunded"
         /\ Len(rq[r].issued) = 1
         /\ rq[r].pass = "none" /\ rq[r].waitlist = <<>>

\* C14 witness: the restoring call of a cancellation got no answer while a
\* booking was waiting for the seat.
C14_Witness ==
  \E r \in Reqs :
    /\ RestoreFailed(r) /\ rq[r].issued[1] = <<-1, "failed">>
    /\ rq[r].resp.status = 200
    /\ \E i \in Ids : bookings[i].bookingStatus = "waitlisted"
                        /\ bookings[i].numberOfTickets = 1

\* C15: a persisted booking has a transaction id only if its payment was
\* recorded completed: its paymentStatus is completed or refunded, and no booking
\* pending or waitlisted, or with payment pending or failed, has one.
C15_TransactionIdOnlyWhenPaid ==
  \A i \in Ids :
    bookings[i].transactionId # "none"
      => /\ bookings[i].paymentStatus \in {"completed", "refunded"}
         /\ bookings[i].bookingStatus \notin {"pending", "waitlisted"}

\* C15 witness: a booking confirmed at creation and a booking confirmed by a
\* promotion pass both carry a transaction id, next to a booking whose payment
\* failed, which carries none.
C15_Witness ==
  \E i, j, k \in Ids :
    /\ bookings[i].transactionId # "none" /\ bookings[i].paymentStatus = "refunded"
    /\ bookings[j].transactionId # "none" /\ bookings[j].paymentStatus = "completed"
    /\ \E r \in Reqs : j \in Range(Promoted(r))
    /\ bookings[k].transactionId = "none" /\ bookings[k].paymentStatus = "failed"

\* C16: when the simulated payment of a create fails, the booking is persisted
\* pending with payment failed and no transaction id, the request makes no seat
\* call and no second attempt, and the failure response carries the booking's
\* reference.
C16_PaymentFailure ==
  \A r \in Reqs :
    IsDone(r, "create") /\ rq[r].paymentSuccess = "no"
      => /\ rq[r].id \in Ids
         /\ rq[r].saved = <<<<rq[r].id, "pending">>>>
         /\ bookings[rq[r].id].bookingStatus = "pending"
         /\ bookings[rq[r].id].paymentStatus = "failed"
         /\ bookings[rq[r].id].transactionId = "none"
         /\ rq[r].issued = <<>>
         /\ consumed[rq[r].id] = 0
         /\ rq[r].resp.status = 400
         /\ rq[r].resp.error = "Payment failed. Please try again."
         /\ rq[r].resp.bookingReference = rq[r].id

\* C16 witness: the payment of a request for the seats that were there failed,
\* and the seats are still there.
C16_Witness ==
  \E r \in Reqs :
    /\ IsDone(r, "create") /\ rq[r].paymentSuccess = "no"
    /\ rq[r].numberOfTickets = 2 /\ rq[r].event.availableSeats = 2
    /\ availableSeats[rq[r].eventId] = 2
    /\ bookings[rq[r].id].paymentStatus = "failed"

\* The cancel request found a booking of which its caller is neither the owner
\* nor an admin.
ByStranger(r) ==
  /\ IsDone(r, "cancel") /\ rq[r].found.bookingStatus # "absent"
  /\ rq[r].caller # rq[r].found.userId /\ RoleOf(rq[r].caller) # "admin"

\* C17: only the owner or an admin can cancel a booking. A cancel request of any
\* other caller fails with 403 "Access denied", writes nothing, makes no seat
\* call and runs no promotion pass; a request that has saved a cancellation came
\* from the owner or an admin.
C17_OnlyOwnerOrAdminCancels ==
  \A r \in Reqs :
    /\ ByStranger(r)
         => /\ rq[r].resp.status = 403 /\ rq[r].resp.error = "Access denied"
            /\ NothingDone(r)
    /\ rq[r].op = "cancel" /\ rq[r].saved # <<>>
         => rq[r].caller = rq[r].found.userId \/ RoleOf(rq[r].caller) = "admin"

\* C17 witness: another user asked to cancel a confirmed booking, which is still
\* confirmed, with its seats.
C17_Witness ==
  \E r \in Reqs :
    /\ ByStranger(r) /\ rq[r].caller = "u2" /\ rq[r].resp.status = 403
    /\ rq[r].found.bookingStatus = "confirmed"
    /\ bookings[rq[r].id].bookingStatus = "confirmed"
    /\ availableSeats[rq[r].found.eventId] = 0

\* C18: a cancel-all for event e sets every booking of e that is not cancelled
\* to cancelled / refunded and changes nothing else of it, leaves the cancelled
\* bookings of e and the bookings of the other events as they are, makes no seat
\* call and starts no promotion pass.
C18_CancelAllFrame ==
  [][\A e \in Events :
       CancelAll(e)
         => /\ \A i \in Ids :
                 IF bookings[i].eventId = e /\ bookings[i].bookingStatus # "cancelled"
                   THEN bookings'[i] = [bookings[i] EXCEPT !.bookingStatus = "cancelled",
                                                          !.paymentStatus = "refunded"]
                   ELSE bookings'[i] = bookings[i]
            /\ availableSeats' = availableSeats
            /\ consumed' = consumed /\ returned' = returned
            /\ rq' = rq]_vars

\* C18 witness: a booking of e1 that was never paid is cancelled / refunded, which
\* only cancel-all does, its seats are not back in the ledger, and a booking of e2
\* is still confirmed.
C18_Witness ==
  \E i, j, k \in Ids :
    /\ bookings[i].eventId = "e1" /\ bookings[i].bookingStatus = "cancelled"
    /\ bookings[i].paymentStatus = "refunded" /\ bookings[i].transactionId = "none"
    /\ bookings[j].eventId = "e1" /\ bookings[j].bookingStatus = "cancelled"
    /\ bookings[j].paymentStatus = "refunded" /\ bookings[j].transactionId # "none"
    /\ returned[j] = 0 /\ availableSeats["e1"] = 0
    /\ bookings[k].eventId = "e2" /\ bookings[k].bookingStatus = "confirmed"
    /\ \A r \in Reqs : rq[r].pc = "idle"

\* C19: a sync for event e changes nothing but the event snapshot (here the
\* eventDate) of the bookings of e: statuses, numberOfTickets, transaction id and
\* owner stay, as do the bookings of the other events; it makes no seat call and
\* starts no promotion pass.
C19_SyncFrame ==
  [][\A e \in Events, d \in Dates :
       Sync(e, d)
         => /\ \A i \in Ids :
                 IF bookings[i].eventId = e
                   THEN bookings'[i] = [bookings[i] EXCEPT !.eventDate = d]
                   ELSE bookings'[i] = bookings[i]
            /\ availableSeats' = availableSeats
            /\ consumed' = consumed /\ returned' = returned
            /\ rq' = rq]_vars

\* C19 witness: the bookings of e1, one confirmed and one waitlisted, carry a date
\* the event was not created with, and the booking of e2 does not.
C19_Witness ==
  \E i, j, k \in Ids :
    /\ bookings[i].eventId = "e1" /\ bookings[i].bookingStatus = "confirmed"
    /\ bookings[i].eventDate # EventDate /\ bookings[i].transactionId # "none"
    /\ bookings[j].eventId = "e1" /\ bookings[j].bookingStatus = "waitlisted"
    /\ bookings[j].eventDate # EventDate
    /\ bookings[k].eventId = "e2" /\ bookings[k].eventDate = EventDate

\* The pass of request r went through its waitlist as far as the seats allowed.
WentOn(r) ==
  /\ Len(Promoted(r)) = rq[r].cur - 1
  /\ \/ Candidate(r) = 0
     \/ bookings[Candidate(r)].numberOfTickets > rq[r].seats

\* C20: a failed e-mail changes neither what is persisted nor the response. A
\* create whose e-mail failed has saved its booking once, confirmed or waitlisted,
\* and answers 201 or 202 with it; a cancellation whose pass had an e-mail fail
\* answers 200, and the pass, unless a seat call failed, went on to the next
\* candidate until the list or the seats ran out.
C20_EmailFailureChangesNothing ==
  \A r \in Reqs :
    /\ IsDone(r, "create") /\ rq[r].mailFailed
         => /\ rq[r].saved = <<<<rq[r].id, rq[r].booking.bookingStatus>>>>
            /\ bookings[rq[r].id] = rq[r].booking
            /\ rq[r].booking.bookingStatus \in {"confirmed", "waitlisted"}
            /\ rq[r].resp.status
                 = (IF rq[r].booking.bookingStatus = "confirmed" THEN 201 ELSE 202)
            /\ rq[r].resp.bookingReference = rq[r].id
            /\ rq[r].resp.bookingStatus = rq[r].booking.bookingStatus
    /\ IsDone(r, "cancel") /\ rq[r].mailFailed
         => /\ rq[r].resp.status = 200
            /\ rq[r].resp.bookingStatus = "cancelled"
            /\ (rq[r].issued[Len(rq[r].issued)][2] = "ok" => WentOn(r))

\* C20 witness: the e-mail of the first of two promotions failed and the pass
\* promoted the second all the same.
C20_Witness ==
  \E r \in Reqs :
    /\ IsDone(r, "cancel") /\ rq[r].mailFailed
    /\ Len(rq[r].waitlist) = 2 /\ Promoted(r) = rq[r].waitlist
    /\ \A i \in Range(rq[r].waitlist) : bookings[i].bookingStatus = "confirmed"

\* Request r makes a seat call in this step; the call, and the event it is for.
Calls(r) == Len(rq'[r].issued) = Len(rq[r].issued) + 1
TheCall(r) == rq'[r].issued[Len(rq'[r].issued)]
CallEvent(r) == rq'[r].eventId

\* The ledger answered the call with the new availableSeats, which it persisted;
\* of the callers the cancel handler keeps the answer (as its hint).
Answered(r, seats) ==
  /\ TheCall(r)[2] = "ok"
  /\ availableSeats' = [availableSeats EXCEPT ![CallEvent(r)] = seats]
  /\ (rq'[r].pc = "p_get" => rq'[r].hint = seats)

C22_AdjustmentRejected ==
  [][\A r \in Reqs :
       Calls(r) /\ TheCall(r)[2] # "failed"
         => LET k == TheCall(r)[1]
                e == CallEvent(r)
            IN /\ (Exists(e) /\ k > availableSeats[e]
                     => TheCall(r)[2] = "rejected" /\ availableSeats' = availableSeats)
               /\ (~Exists(e)
                     => TheCall(r)[2] = "notfound" /\ availableSeats' = availableSeats)
               /\ (TheCall(r)[2] # "ok"
                     => consumed' = consumed /\ returned' = returned
                        /\ rq'[r].pc = "done")]_vars

\* C22 witness: a request that had read 2 seats asked for them when 1 was left,
\* and 1 is left.
C22_Witness ==
  \E r \in Reqs :
    /\ IsDone(r, "create") /\ rq[r].event.availableSeats = 2
    /\ rq[r].issued = <<<<2, "rejected">>>>
    /\ Exists(rq[r].eventId) /\ availableSeats[rq[r].eventId] = 1

\* The seat call of this step has the delta k and, where the ledger applied it,
\* moved the event's availableSeats by d.
Sent(r, k, d) ==
  /\ TheCall(r)[1] = k
  /\ (TheCall(r)[2] = "ok"
        => availableSeats'[CallEvent(r)] = availableSeats[CallEvent(r)] + d)

\* C23 as stated: the engine sends a negative seatsToBook of the booking's
\* numberOfTickets when it confirms or promotes, a positive one when it cancels
\* a confirmed booking, and the ledger consumes on negative, returns on positive.
C23_NegativeConsumes ==
  [][\A r \in Reqs :
       Calls(r)
         => /\ (rq[r].pc = "c_decide"
                  => Sent(r, 0 - rq[r].numberOfTickets, 0 - rq[r].numberOfTickets))
            /\ (rq[r].pc = "p_patch"
                  => Sent(r, 0 - bookings[Candidate(r)].numberOfTickets,
                             0 - bookings[Candidate(r)].numberOfTickets))
            /\ (rq[r].pc = "k_restore"
                  => Sent(r, rq[r].booking.numberOfTickets,
                             rq[r].booking.numberOfTickets))]_vars

\* C23, amended: a positive seatsToBook consumes seats and a negative one returns
\* them; the engine sends +numberOfTickets when it confirms or promotes a
\* booking and -numberOfTickets when it cancels a confirmed booking.
C23_PositiveConsumes ==
  [][\A r \in Reqs :
       Calls(r)
         => /\ (rq[r].pc = "c_decide"
                  => /\ rq[r].numberOfTickets > 0
                     /\ Sent(r, rq[r].numberOfTickets, 0 - rq[r].numberOfTickets))
            /\ (rq[r].pc = "p_patch"
                  => /\ bookings[Candidate(r)].numberOfTickets > 0
                     /\ Sent(r, bookings[Candidate(r)].numberOfTickets,
                                0 - bookings[Candidate(r)].numberOfTickets))
            /\ (rq[r].pc = "k_restore"
                  => /\ rq[r].booking.numberOfTickets > 0
                     /\ rq[r].wasConfirmed
                     /\ Sent(r, 0 - rq[r].booking.numberOfTickets,
                                rq[r].booking.numberOfTickets))
            /\ rq[r].pc \in {"c_decide", "p_patch", "k_restore"}]_vars

\* C23 witness: a cancellation gave 1 seat back with seatsToBook -1 and its pass
\* took it for a waitlisted booking with seatsToBook 1, both applied.
C23_Witness ==
  \E r \in Reqs :
    /\ IsDone(r, "cancel")
    /\ rq[r].issued = <<<<-1, "ok">>, <<1, "ok">>>>
    /\ returned[rq[r].id] = 1
    /\ \E w \in Ids : w # rq[r].id /\ consumed[w] = 1
                        /\ bookings[w].bookingStatus = "confirmed"

\* C24: a pass that has both the caller's hint and the fetched event starts from
\* the fetched availableSeats.
C24_FetchedSeatsFirst ==
  [][\A r \in Reqs :
       rq[r].pc = "p_get" /\ rq'[r].pc = "p_find" /\ rq[r].hint >= 0
         => rq'[r].seats = GetEvent(rq[r].eventId).availableSeats]_vars

\* C25: a seat call of a promotion pass that fails is the last thing the pass
\* does: it is the last call issued, the candidate it was for is the last
\* booking the pass saved, and the pass is over.
C25_PassStopsAtFailedDelta ==
  \A r \in Reqs :
    rq[r].op = "cancel"
      => \A i \in 2..Len(rq[r].issued) :
           rq[r].issued[i][2] # "ok"
             => /\ i = Len(rq[r].issued)
                /\ rq[r].pc = "done"
                /\ Len(Promoted(r)) = i - 1
                /\ rq[r].cur = i - 1

\* C25 witness: two bookings wait for 1 seat each, 2 seats came back, the seat
\* call for the first failed, and the second is still waitlisted.
C25_Witness ==
  \E r \in Reqs :
    /\ IsDone(r, "cancel")
    /\ rq[r].issued = <<<<-2, "ok">>, <<1, "failed">>>>
    /\ Len(rq[r].waitlist) = 2
    /\ rq[r].seats = 1
    /\ bookings[rq[r].waitlist[2]].bookingStatus = "waitlisted"
    /\ bookings[rq[r].waitlist[2]].numberOfTickets = 1

\* C26: a pass that fails at the fetch of the event or at the load of the
\* waitlist has saved no booking and issued no seat call, is not run again, and
\* the cancel request is answered with its usual success, which says nothing of
\* the pass.
C26_PassFailureIsSilent ==
  \A r \in Reqs :
    rq[r].passFailed
      => /\ IsDone(r, "cancel")
         /\ rq[r].saved = <<<<rq[r].id, "cancelled">>>>
         /\ Promoted(r) = <<>>
         /\ Len(rq[r].issued) = 1 /\ rq[r].issued[1][1] < 0
         /\ rq[r].cur = 1
         /\ rq[r].resp = CancelResp(rq[r].id, rq[r].booking)
         /\ rq[r].resp.status = 200 /\ rq[r].resp.error = "-"
         /\ rq[r].resp.bookingStatus = "cancelled"

\* C26 witness: the pass failed while a waitlisted booking was there that the
\* seats given back would have served.
C26_Witness ==
  \E r \in Reqs :
    /\ rq[r].passFailed /\ rq[r].eventId \in Events
    /\ \E w \in Ids : /\ bookings[w].eventId = rq[r].eventId
                        /\ bookings[w].bookingStatus = "waitlisted"
                        /\ bookings[w].numberOfTickets <= rq[r].hint

\* The cancel request r is inside its promotion pass.
InPass(r) == rq[r].op = "cancel" /\ rq[r].pc \in {"p_get", "p_find", "p_loop", "p_patch"}

\* C27: the pass runs inline. While the pass of a cancel request is on, the
\* request has no response; when it has one the pass is over and every booking
\* the pass promoted has been written (none of them is still waitlisted).
C27_PromotionInline ==
  \A r \in Reqs :
    /\ InPass(r) => rq[r].resp = NoResp
    /\ rq[r].op = "cancel" /\ rq[r].resp # NoResp
         => /\ rq[r].pc = "done"
            /\ \A w \in Range(Promoted(r)) : bookings[w].bookingStatus # "waitlisted"

\* C27 witness: a cancel request is answered after its pass promoted a booking.
C27_Witness ==
  \E r \in Reqs :
    /\ IsDone(r, "cancel") /\ rq[r].resp.status = 200
    /\ Len(Promoted(r)) = 1
    /\ bookings[Promoted(r)[1]].bookingStatus = "confirmed"
    /\ bookings[Promoted(r)[1]].transactionId = generateTransactionId

\* The step leaves the stored bookings, the seats and the id counter alone, and
\* request r ends with no document, no payment and no seat call.
NothingCreated(r) ==
  /\ bookings' = bookings /\ availableSeats' = availableSeats /\ nextId' = nextId
  /\ consumed' = consumed /\ returned' = returned
  /\ rq'[r].pc = "done" /\ rq'[r].id = 0 /\ rq'[r].booking = NoDoc
  /\ rq'[r].paymentSuccess = "-"
  /\ rq'[r].saved = <<>> /\ rq'[r].issued = <<>>

\* C28: a create request whose event was fetched as cancelled, or whose event's
\* date is before the current time, is rejected; one whose event lookup failed
\* is answered NotFound. In the three cases no booking is persisted, no payment
\* is attempted and no seat call is issued.
C28_CreateRejectedBeforePayment ==
  [][\A r \in Reqs :
       /\ rq[r].pc = "c_decide" /\ rq'[r] # rq[r] /\ rq[r].event.status = "cancelled"
            => NothingCreated(r) /\ rq'[r].resp = Resp(400, "Event has been cancelled")
       /\ rq[r].pc = "c_decide" /\ rq'[r] # rq[r] /\ rq[r].event.status # "cancelled"
          /\ rq[r].event.date < now
            => NothingCreated(r)
               /\ rq'[r].resp = Resp(400, "Cannot book tickets for past events")
       /\ rq[r].pc = "idle" /\ rq'[r].op = "create" /\ rq'[r].numberOfTickets # 0
          /\ rq'[r].event = NoEvent
            => NothingCreated(r) /\ rq'[r].resp = Resp(404, "Event not found")]_vars

\* C28 witness: a request for an upcoming event whose date has passed is turned
\* down while seats are free.
C28_Witness ==
  \E r \in Reqs :
    /\ IsDone(r, "create")
    /\ rq[r].resp.error = "Cannot book tickets for past events"
    /\ rq[r].event.status = "upcoming"
    /\ rq[r].event.availableSeats >= rq[r].numberOfTickets
    /\ NothingDone(r)

\* Request r decides on the booking it found, whose event date has passed.
DecidesOnPast(r) ==
  /\ rq[r].pc = "k_save" /\ rq'[r] # rq[r]
  /\ rq[r].found.bookingStatus # "absent"
  /\ rq[r].found.eventDate < now

\* The step ends request r and changes no booking and no seat count, and r has
\* saved nothing, issued no seat call and run no pass.
CancelChangedNothing(r) ==
  /\ bookings' = bookings /\ availableSeats' = availableSeats
  /\ consumed' = consumed /\ returned' = returned
  /\ rq'[r].pc = "done"
  /\ rq'[r].saved = <<>> /\ rq'[r].issued = <<>> /\ rq'[r].pass = "none"

\* C29 as stated: cancelling a booking whose event date has passed is rejected
\* with a 400 (the status the handlers use for conflicts) and changes nothing.
C29_PastEventAlwaysConflict ==
  [][\A r \in Reqs :
       DecidesOnPast(r) => CancelChangedNothing(r) /\ rq'[r].resp.status = 400]_vars

\* C29, amended: cancelling a booking whose event date has passed changes
\* nothing and runs no pass; the owner or an admin is answered 400 ("Cannot
\* cancel booking for past events", or "Booking is already cancelled" when it
\* is), any other caller 403.
C29_PastEventCancelRejected ==
  [][\A r \in Reqs :
       DecidesOnPast(r)
         => /\ CancelChangedNothing(r)
            /\ rq'[r].resp =
                 IF AccessDenied(rq[r].found, rq[r].caller, RoleOf(rq[r].caller))
                   THEN Resp(403, "Access denied")
                 ELSE IF rq[r].found.bookingStatus = "cancelled"
                   THEN Resp(400, "Booking is already cancelled")
                 ELSE Resp(400, "Cannot cancel booking for past events")]_vars

\* C29 witness: the owner's cancellation of a confirmed booking is turned down
\* because the event date has passed, and the booking is still confirmed.
C29_Witness ==
  \E r \in Reqs :
    /\ IsDone(r, "cancel")
    /\ rq[r].resp = Resp(400, "Cannot cancel booking for past events")
    /\ rq[r].caller = rq[r].found.userId
    /\ rq[r].found.bookingStatus = "confirmed"
    /\ bookings[rq[r].id].bookingStatus = "confirmed"
    /\ NothingDone(r)

\* C30: the cancellation of a booking found waitlisted issues no seat call and
\* runs no pass, and the booking ends cancelled, holding no seats, with
\* paymentStatus pending (refunded where the event's cancel-all got to it
\* first), never completed.
C30_WaitlistedCancel ==
  \A r \in Reqs :
    IsDone(r, "cancel") /\ rq[r].found.bookingStatus = "waitlisted" /\ rq[r].saved # <<>>
      => /\ rq[r].issued = <<>> /\ rq[r].pass = "none"
         /\ bookings[rq[r].id].bookingStatus = "cancelled"
         /\ bookings[rq[r].id].paymentStatus \in {"pending", "refunded"}

\* C31: a create request never increases availableSeats, and one whose
\* numberOfTickets is not a positive integer is rejected with a validation
\* error before any seat call.
C31_CreateNeverReturnsSeats ==
  [][\A r \in Reqs :
       /\ rq'[r].op = "create" /\ rq'[r] # rq[r]
            => \A e \in Events : availableSeats'[e] <= availableSeats[e]
       /\ rq'[r].op = "create" /\ rq'[r] # rq[r] /\ rq'[r].numberOfTickets <= 0
            => /\ rq'[r].issued = <<>> /\ rq'[r].saved = <<>>
               /\ rq'[r].pc = "done"
                    => rq'[r].resp = Resp(400, "Event ID and number of tickets are required")]_vars

\* The tickets of the confirmed bookings of event e.
ConfirmedTickets(e) ==
  Tickets({i \in Ids : bookings[i].eventId = e /\ bookings[i].bookingStatus = "confirmed"})

\* No request is between two of its steps.
Quiet == \A r \in Reqs : rq[r].pc \in {"idle", "done"}

\* C32: in runs of one request at a time in which no call fails, after each
\* request availableSeats plus the tickets of the event's confirmed bookings is
\* what availableSeats was at the start.
C32_SeatConservation ==
  Quiet => \A e \in Events : availableSeats[e] + ConfirmedTickets(e) = ScenarioSeats

\* C32 witness: a cancellation has been answered after giving seats back and
\* promoting a waitlisted booking, with seats of the event taken.
C32_Witness ==
  \E r \in Reqs :
    /\ IsDone(r, "cancel") /\ rq[r].wasConfirmed
    /\ Len(Promoted(r)) = 1
    /\ availableSeats["e1"] < ScenarioSeats
    /\ ConfirmedTickets("e1") = ScenarioSeats - availableSeats["e1"]

\* C33: under any interleaving in which the ledger answers every call, once
\* all requests have completed no booking is cancelled or waitlisted while its
\* tickets are still taken from availableSeats.
C33_SeatsOnlyHeldByConfirmed ==
  Quiet => \A i \in Ids :
             bookings[i].bookingStatus \in {"cancelled", "waitlisted"}
               => consumed[i] <= returned[i]

\* C34: the two status fields of a persisted booking agree: confirmed exactly
\* when paymentStatus is completed, waitlisted only with pending, pending only
\* with failed.
C34_StatusFieldsConsistent ==
  \A i \in Ids :
    bookings[i].bookingStatus # "absent"
      => /\ bookings[i].bookingStatus = "confirmed"
              <=> bookings[i].paymentStatus = "completed"
         /\ bookings[i].bookingStatus = "waitlisted"
              => bookings[i].paymentStatus = "pending"
         /\ bookings[i].bookingStatus = "pending"
              => bookings[i].paymentStatus = "failed"

\* C35: a booking's paymentStatus becomes refunded only from completed: no
\* operation refunds a booking whose payment was never completed.
C35_RefundedOnlyAfterCompleted ==
  [][\A i \in Ids :
       bookings'[i].paymentStatus = "refunded" /\ bookings[i].paymentStatus # "refunded"
         => bookings[i].paymentStatus = "completed"]_vars

\* C35, amended: the cancel request refunds only a booking whose payment was
\* completed; a booking whose payment never completed becomes refunded only by
\* cancel-all, which refunds every booking of the event it cancels.
C35_OnlyCancelAllRefundsUnpaid ==
  [][\A i \in Ids :
       bookings'[i].paymentStatus = "refunded" /\ bookings[i].paymentStatus # "refunded"
       /\ bookings[i].paymentStatus # "completed"
         => rq' = rq /\ bookings' = AllCancelled(bookings[i].eventId)]_vars

\* C35 witness: the owner has cancelled a booking whose payment failed, and it
\* is cancelled with paymentStatus failed.
C35_Witness ==
  \E r \in Reqs :
    /\ IsDone(r, "cancel") /\ rq[r].found.paymentStatus = "failed"
    /\ rq[r].saved = <<<<rq[r].id, "cancelled">>>>
    /\ bookings[rq[r].id].bookingStatus = "cancelled"
    /\ bookings[rq[r].id].paymentStatus = "failed"

\* C36: a persisted booking becomes confirmed only from waitlisted and only by
\* a promotion pass (so never from pending), and a create request writes a new
\* record, never one that is there.
C36_ConfirmedOnlyByPromotion ==
  [][\A i \in Ids :
       /\ bookings[i].bookingStatus \notin {"absent", "confirmed"}
          /\ bookings'[i].bookingStatus = "confirmed"
            => /\ bookings[i].bookingStatus = "waitlisted"
               /\ \E r \in Reqs : /\ rq[r].pc = "p_loop" /\ rq'[r].pc = "p_patch"
                                   /\ Candidate(r) = i
       /\ bookings'[i] # bookings[i]
          /\ (\E r \in Reqs : rq'[r].op = "create" /\ rq'[r] # rq[r])
            => bookings[i].bookingStatus = "absent"]_vars

\* C37: no booking created after a still waitlisted booking of the same event
\* becomes confirmed before that earlier booking does.
C37_WaitlistBeforeNewRequests ==
  [][\A i \in Ids, j \in Ids :
       (/\ i < j
        /\ bookings'[i].bookingStatus = "waitlisted"
        /\ bookings'[j].eventId = bookings'[i].eventId
        /\ bookings'[j].bookingStatus = "confirmed")
         => bookings[j].bookingStatus = "confirmed"]_vars

\* Booking i is the earliest waitlisted booking of its event and the event has
\* the seats for it.
CouldBePromoted(i) ==
  /\ bookings[i].bookingStatus = "waitlisted"
  /\ \A j \in Ids : j < i /\ bookings[j].eventId = bookings[i].eventId
                        => bookings[j].bookingStatus # "waitlisted"
  /\ availableSeats[bookings[i].eventId] >= bookings[i].numberOfTickets

\* C38: when no call fails, the earliest waitlisted booking of an event that
\* has the seats for it does not wait for ever: with no further request coming
\* it is confirmed (or stops being the one the seats are for).
C38_PromotionLiveness ==
  \A i \in Ids : CouldBePromoted(i) ~> ~CouldBePromoted(i)

====
